---- MODULE Spec2Model ----
(***************************************************************************)
(* Model of pterm's ProgressbarPrinter (progressbar_printer.go).           *)
(*                                                                         *)
(* The heap holds ProgressbarPrinter structs (bars), the atomic.Bool and   *)
(* atomic.String cells their atomicIsActive / atomicTitle pointers refer   *)
(* to (abool, astr), and the schedule.Task objects (tasks).  A struct copy *)
(* made by a value receiver copies the two pointers, not the cells.        *)
(*                                                                         *)
(*   Spec        one caller and the scheduler: every method call is one    *)
(*               action                                                    *)
(*   SpecShare   the same, with room for two instances of one template     *)
(*   SpecBuild   the same, with the With* setters and negative Add counts  *)
(*   SpecStart   several callers of Start, then Stop, on one template      *)
(*   SpecConc    several callers on one started instance, interleaved at   *)
(*               the level of memory accesses of Add and Stop              *)
(*   SpecRender  getString applied to bounded inputs                       *)
(***************************************************************************)
EXTENDS Integers, Sequences, FiniteSets, TLC

VARIABLES
    bars,       \* heap of ProgressbarPrinter structs, indexed by address
    abool,      \* heap of atomic.Bool cells
    astr,       \* heap of atomic.String cells
    tasks,      \* heap of schedule.Task objects: [bar, active]
    registry,   \* activeProgressBarPrinters.printers
    out,        \* what the last call wrote to the Writer, in order
    hides,      \* number of cursor.Hide() calls so far
    shows,      \* number of cursor.Show() calls so far
    finals,     \* per bar: terminal output actions (newline / clear) so far
    origin,     \* per bar: how the struct came to be (history)
    now,        \* time.Now(), in seconds
    termWidth,  \* GetTerminalWidth()
    last,       \* the last call: [op, p, count, title, ret]
    crashed,    \* a nil atomic pointer was dereferenced (panic)
    pc,         \* SpecConc: per caller, position inside Add / Stop
    tmp,        \* SpecConc: per caller, the value of p.Current it has read
    call,       \* SpecConc: per caller, the method it calls
    lock,       \* activeProgressBarPrinters.lock: its holder, or Nil
    nanInt      \* what int(NaN) yields on this build (line 283, Total < 0)

vars ==
    <<bars, abool, astr, tasks, registry, out, hides, shows, finals, origin,
      now, termWidth, last, crashed, pc, tmp, call, lock, nanInt>>

----------------------------------------------------------------------------
(* Bounds of the model *)

MaxBars == 2
MaxTotal == 2
MaxShows == 2
NThreads == 2
RenderMaxTotal == 3
MaxBelow == 1

\* titles given to Start and UpdateTitle (a template's title is "")
Titles == {"ab"}
\* counts given to Add, besides Increment's 1
AddCounts == {2}
\* counts given to Add in SpecBuild: Add takes every int
AnyCounts == {-1, 2}
\* terminal widths, MaxWidth settings and elapsed seconds of SpecRender
TermWidths == {12, 80}
MaxWidths == {0, 10, 80}
Elapsed == {0, 75}

(* Program constants *)

DefaultMaxWidth == 80
Nil == 0

\* the smallest int of a 32-bit build; the -2^63 of a 64-bit build takes the
\* same branch of fmt
MinInt ==
    -2147483647 - 1

\* int(math.Log10(x)) for x < 0 converts NaN, whose result is
\* implementation-specific: 0 (arm64, wasm) or the smallest int (amd64, 386)
NaNInts ==
    {0, MinInt}

\* fmt refuses a width beyond this and writes "%!(BADWIDTH)" instead
FmtMaxWidth ==
    10^6

BadWidthLen ==
    Len("%!(BADWIDTH)")

----------------------------------------------------------------------------
(* Arithmetic of the layout *)

Abs(n) ==
    IF n < 0 THEN -n ELSE n

Max(a, b) ==
    IF a >= b THEN a ELSE b

\* Go's integer division truncates toward zero.
GoDiv(a, b) ==
    IF (a >= 0) = (b > 0) THEN Abs(a) \div Abs(b) ELSE -(Abs(a) \div Abs(b))

RECURSIVE Digits(_)
Digits(n) ==
    IF n < 10 THEN 1 ELSE 1 + Digits(n \div 10)

\* length of fmt's %d of n
IntLen(n) ==
    IF n < 0 THEN 1 + Digits(-n) ELSE Digits(n)

\* 1 + int(math.Log10(float64(total))), total /= 0; the logarithm of a
\* negative total is NaN
Padding(total) ==
    1 + (IF total > 0 THEN Digits(total) - 1 ELSE nanInt)

\* fmt.Sprintf("%0*d", padding, cur): at least |padding| wide (a negative
\* width left-justifies), or the bad-width marker and the plain number
PaddedLen(padding, cur) ==
    IF padding > FmtMaxWidth \/ padding < -FmtMaxWidth
        THEN BadWidthLen + IntLen(cur)
        ELSE Max(Abs(padding), IntLen(cur))

\* internal.PercentageRound: round(current / total * 100), half away from zero
PercentageRound(total, current) ==
    LET magnitude == (200 * Abs(current) + Abs(total)) \div (2 * Abs(total))
    IN IF (current >= 0) = (total > 0) THEN magnitude ELSE -magnitude

\* fmt.Sprintf("%3d%%", pct)
PercentLen(pct) ==
    Max(3, IntLen(pct)) + 1

\* time.Duration.String() of d whole seconds: "0s", "59s", "1m0s", "1h0m0s"
DurationLen(d) ==
    IF d < 60 THEN Digits(d) + 1
    ELSE IF d < 3600 THEN Digits(d \div 60) + 1 + Digits(d % 60) + 1
    ELSE Digits(d \div 3600) + 1 + Digits((d % 3600) \div 60) + 1 + Digits(d % 60) + 1

\* GetElapsedTime / parseElapsedTime: time.Since(p.startedAt), rounded to 1s
ElapsedLen(b) ==
    DurationLen(now - b.startedAt)

\* lines 271-277
EffectiveWidth(maxWidth) ==
    IF maxWidth <= 0 THEN termWidth
    ELSE IF termWidth < maxWidth THEN termWidth
    ELSE maxWidth

\* lines 279-285: len(RemoveColorFromString(before))
BeforeLen(b, title) ==
    (IF b.ShowTitle THEN Len(title) + 1 ELSE 0)
    + (IF b.ShowCount
         THEN 1 + PaddedLen(Padding(b.Total), b.Current) + 1 + IntLen(b.Total) + 1 + 1
         ELSE 0)

\* lines 287-297: len(RemoveColorFromString(after))
AfterLen(b) ==
    1
    + (IF b.ShowPercentage
         THEN PercentLen(PercentageRound(b.Total, b.Current)) + 1
         ELSE 0)
    + (IF b.ShowElapsedTime THEN 2 + ElapsedLen(b) ELSE 0)

\* line 299
BarMaxLength(b, title) ==
    EffectiveWidth(b.MaxWidth) - BeforeLen(b, title) - AfterLen(b) - 1

\* the filled length counted from the wrong end
BarCurrentLengthFromEnd(current, barMaxLength, total) ==
    GoDiv((total - current) * barMaxLength, total)

\* line 301
BarCurrentLength(current, barMaxLength, total) ==
    GoDiv(current * barMaxLength, total)

\* the filler without the test of line 303
FillerCountUnguarded(barMaxLength, barCurrentLength) ==
    barMaxLength - barCurrentLength

\* lines 302-305: repeat count of BarFiller (0 when the string stays empty)
FillerCount(barMaxLength, barCurrentLength) ==
    IF barMaxLength - barCurrentLength > 0
        THEN barMaxLength - barCurrentLength
        ELSE 0

\* lines 308-310: repeat count of BarCharacter (0 when no run is built)
FilledRun(barCurrentLength) ==
    IF barCurrentLength > 0 THEN barCurrentLength ELSE 0

\* lines 307-310: cells of the bar: the filled run, LastCharacter, the filler
BarLen(barMaxLength, barCurrentLength) ==
    FillerCount(barMaxLength, barCurrentLength)
    + (IF barCurrentLength > 0 THEN FilledRun(barCurrentLength) + 1 ELSE 0)

----------------------------------------------------------------------------
(* The heap, as one value, so that a method body can call other methods *)

H ==
    [bars |-> bars, abool |-> abool, astr |-> astr, tasks |-> tasks,
     registry |-> registry, out |-> out, hides |-> hides, shows |-> shows,
     finals |-> finals, origin |-> origin, crashed |-> crashed]

\* the heap at the start of a call: nothing written by this call yet
Fresh ==
    [H EXCEPT !.out = <<>>]

Commit(h) ==
    /\ bars' = h.bars
    /\ abool' = h.abool
    /\ astr' = h.astr
    /\ tasks' = h.tasks
    /\ registry' = h.registry
    /\ out' = h.out
    /\ hides' = h.hides
    /\ shows' = h.shows
    /\ finals' = h.finals
    /\ origin' = h.origin
    /\ crashed' = h.crashed

\* a nil pointer dereference: the goroutine panics
Panic(h) ==
    [h EXCEPT !.crashed = TRUE]

\* DefaultProgressbar with the given public fields (lines 30-44); the
\* unexported fields are zero values
Template(total, showElapsed, removeWhenDone) ==
    [Title |-> "", Total |-> total, Current |-> 0, MaxWidth |-> DefaultMaxWidth,
     ShowElapsedTime |-> showElapsed, ShowCount |-> TRUE, ShowTitle |-> TRUE,
     ShowPercentage |-> TRUE, RemoveWhenDone |-> removeWhenDone,
     IsActive |-> FALSE, startedAt |-> 0, rerenderTask |-> Nil,
     atomicIsActive |-> Nil, atomicTitle |-> Nil]

\* atomic.Bool.Load / atomic.String.Load through the bar's pointers
LoadIsActive(h, p) ==
    h.abool[h.bars[p].atomicIsActive]

LoadTitle(h, p) ==
    h.astr[h.bars[p].atomicTitle]

\* a method with a value receiver works on a copy of *p; the copy escapes
\* to the heap when its address is returned (With*, Start)
CopyBar(h, p, how) ==
    [h EXCEPT !.bars = Append(@, h.bars[p]),
              !.finals = Append(@, 0),
              !.origin = Append(@, [op |-> how, src |-> p])]

\* lines 86-88
InitIsActive(h, p) ==
    IF h.bars[p].atomicIsActive = Nil
        THEN [h EXCEPT !.abool = Append(@, h.bars[p].IsActive),
                       !.bars[p].atomicIsActive = Len(h.abool) + 1]
        ELSE h

\* lines 89-91
InitTitle(h, p) ==
    IF h.bars[p].atomicTitle = Nil
        THEN [h EXCEPT !.astr = Append(@, h.bars[p].Title),
                       !.bars[p].atomicTitle = Len(h.astr) + 1]
        ELSE h

\* lines 85-92
lazyInit(h, p) ==
    InitTitle(InitIsActive(h, p), p)

\* lines 95-101; the result is the last bar of the heap
WithTitleBody(h, p, name) ==
    LET h1 == lazyInit(CopyBar(h, p, "With"), Len(h.bars) + 1)
        q == Len(h1.bars)
    IN [h1 EXCEPT !.astr[h1.bars[q].atomicTitle] = name,
                  !.bars[q].Title = name]

\* lines 120-124
WithCurrentBody(h, p, current) ==
    LET h1 == lazyInit(CopyBar(h, p, "With"), Len(h.bars) + 1)
        q == Len(h1.bars)
    IN [h1 EXCEPT !.bars[q].Current = current]

----------------------------------------------------------------------------
(* Rendering *)

\* what Fprinto writes for the empty string: a bare carriage return
Blank(p) ==
    [kind |-> "blank", p |-> p, title |-> "", cur |-> 0, total |-> 0,
     width |-> 0, max |-> 0, filled |-> 0, run |-> 0, filler |-> 0,
     len |-> 0]

Newline(p) ==
    [Blank(p) EXCEPT !.kind = "newline"]

ClearLine(p) ==
    [Blank(p) EXCEPT !.kind = "clear"]

\* lines 267-312: the line of an active bar with Total /= 0
Frame(h, p) ==
    LET b == h.bars[p]
        title == LoadTitle(h, p)
        barMaxLength == BarMaxLength(b, title)
        barCurrentLength == BarCurrentLength(b.Current, barMaxLength, b.Total)
    IN [kind |-> "frame", p |-> p, title |-> IF b.ShowTitle THEN title ELSE "",
        cur |-> b.Current, total |-> b.Total,
        width |-> EffectiveWidth(b.MaxWidth),
        max |-> barMaxLength, filled |-> barCurrentLength,
        run |-> FilledRun(barCurrentLength),
        filler |-> FillerCount(barMaxLength, barCurrentLength),
        len |-> BeforeLen(b, title) + BarLen(barMaxLength, barCurrentLength)
                + AfterLen(b)]

\* lines 254-256 and 263-265: the cases in which getString returns ""
RendersNothing(h, p) ==
    \/ ~LoadIsActive(h, p)
    \/ h.bars[p].Total = 0

\* lines 253-313
getString(h, p) ==
    IF RendersNothing(h, p) THEN Blank(p) ELSE Frame(h, p)

\* strings.Repeat panics on a negative count (lines 304, 309)
RepeatPanics(f) ==
    f.run < 0 \/ f.filler < 0

\* lines 248-251; getString dereferences p.atomicIsActive
updateProgress(h, p) ==
    IF h.bars[p].atomicIsActive = Nil
        THEN Panic(h)
    ELSE IF RepeatPanics(getString(h, p))
        THEN Panic(h)
    ELSE [h EXCEPT !.out = Append(@, getString(h, p))]

----------------------------------------------------------------------------
(* Stop, lines 365-383 *)

\* lines 366-369
StopCancel(h, p) ==
    LET t == h.bars[p].rerenderTask
        h1 == IF t /= Nil /\ h.tasks[t].active
                  THEN [h EXCEPT !.tasks[t].active = FALSE]
                  ELSE h
    IN [h1 EXCEPT !.shows = @ + 1]

\* Stop without its guard: every call finalizes the line
StopNeverReturnsEarly(h, p) ==
    FALSE

\* line 371
StopReturnsEarly(h, p) ==
    ~LoadIsActive(h, p)

\* lines 374-375
StopDeactivate(h, p) ==
    [h EXCEPT !.bars[p].IsActive = FALSE,
              !.abool[h.bars[p].atomicIsActive] = FALSE]

\* lines 376-381
StopFinalize(h, p) ==
    [h EXCEPT !.out = IF h.bars[p].RemoveWhenDone
                          THEN @ \o <<ClearLine(p), Blank(p)>>
                          ELSE Append(@, Newline(p)),
              !.finals[p] = @ + 1]

StopBody(h, p) ==
    LET h1 == StopCancel(h, p)
    IN IF h1.bars[p].atomicIsActive = Nil THEN Panic(h1)
       ELSE IF StopReturnsEarly(h1, p) THEN h1
       ELSE StopFinalize(StopDeactivate(h1, p), p)

----------------------------------------------------------------------------
(* Add, lines 316-330 *)

\* Add without its Total == 0 guard
AddNeverReturnsNil(h, p) ==
    FALSE

\* line 317
AddReturnsNil(h, p) ==
    h.bars[p].Total = 0

\* line 321, the store of p.Current += count
AddStore(h, p, value) ==
    [h EXCEPT !.bars[p].Current = value]

\* line 321
AddCurrent(h, p, count) ==
    AddStore(h, p, h.bars[p].Current + count)

\* the completion test off by one: > instead of >=
AddIsDoneStrict(h, p) ==
    h.bars[p].Current > h.bars[p].Total

\* line 324
AddIsDone(h, p) ==
    h.bars[p].Current >= h.bars[p].Total

\* line 325
AddClamp(h, p) ==
    [h EXCEPT !.bars[p].Total = h.bars[p].Current]

\* lines 324-328
AddFinish(h, p) ==
    IF AddIsDone(h, p)
        THEN StopBody(updateProgress(AddClamp(h, p), p), p)
        ELSE h

AddBody(h, p, count) ==
    IF AddReturnsNil(h, p) THEN h
    ELSE LET h1 == updateProgress(AddCurrent(h, p, count), p)
         IN IF h1.crashed THEN h1 ELSE AddFinish(h1, p)

\* what Add returns: nil or p
AddResult(h, p) ==
    IF AddReturnsNil(h, p) THEN Nil ELSE p

----------------------------------------------------------------------------
(* UpdateTitle, lines 239-245 *)

\* UpdateTitle that sets only the Title field, which render never reads
UpdateTitleStoreField(h, p, title) ==
    [h EXCEPT !.bars[p].Title = title]

\* lines 240-242
UpdateTitleStore(h, p, title) ==
    [h EXCEPT !.astr[h.bars[p].atomicTitle] = title,
              !.bars[p].Title = title]

UpdateTitleBody(h, p, title) ==
    IF h.bars[p].atomicTitle = Nil THEN Panic(h)
    ELSE updateProgress(UpdateTitleStore(h, p, title), p)

----------------------------------------------------------------------------
(* Start, lines 333-362; title is the variadic argument, <<>> or <<t>> *)

\* lines 334-337
StartActivate(h, q) ==
    LET h1 == lazyInit(h, q)
    IN [h1 EXCEPT !.hides = @ + 1,
                  !.bars[q].IsActive = TRUE,
                  !.abool[h1.bars[q].atomicIsActive] = TRUE]

\* lines 338-341
StartTitle(h, q, title) ==
    IF Len(title) /= 0
        THEN [h EXCEPT !.bars[q].Title = title[1],
                       !.astr[h.bars[q].atomicTitle] = title[1]]
        ELSE h

\* lines 346-350
StartRegister(h, q) ==
    [h EXCEPT !.registry = Append(@, q),
              !.bars[q].startedAt = now]

\* lines 354-359
StartSchedule(h, q) ==
    IF h.bars[q].ShowElapsedTime
        THEN [h EXCEPT !.tasks = Append(@, [bar |-> q, active |-> TRUE]),
                       !.bars[q].rerenderTask = Len(h.tasks) + 1]
        ELSE h

StartBody(h, p, title) ==
    LET q == Len(h.bars) + 1
        h1 == StartActivate(CopyBar(h, p, "Start"), q)
        h2 == StartRegister(StartTitle(h1, q, title), q)
    IN StartSchedule(updateProgress(h2, q), q)

----------------------------------------------------------------------------
(* Spec: one caller and the scheduler; every call is one action.  The      *)
(* caller drives progress (Add, Increment, UpdateTitle) on the instances   *)
(* Start returned; on a bar that was never started it calls Start, Stop,   *)
(* and Add against the Total == 0 guard.                                   *)

Call(op, p, count, title, ret) ==
    [op |-> op, p |-> p, count |-> count, title |-> title, ret |-> ret]

\* the largest value of Current the model follows
MaxCur ==
    MaxTotal + 1

\* the counters of the model stay within its bounds
InBounds(h, limit) ==
    /\ Len(h.bars) <= limit
    /\ h.shows <= MaxShows
    /\ \A i \in DOMAIN h.bars : h.bars[i].Current <= MaxCur
    /\ \A i \in DOMAIN h.bars : h.bars[i].Current >= -MaxBelow

Started(p) ==
    origin[p].op = "Start"

\* the template the program starts from: a ProgressbarPrinter literal
\* (atomic pointers nil), or the result of a With* chain on it, which has
\* gone through lazyInit (lines 113-117, 148-152, 197-201)
Built(total, showElapsed, removeWhenDone, built) ==
    LET h == [bars |-> <<Template(total, showElapsed, removeWhenDone)>>,
              abool |-> <<>>, astr |-> <<>>]
    IN IF built THEN lazyInit(h, 1) ELSE h

Init ==
    /\ \E total \in 0..MaxTotal, showElapsed \in BOOLEAN, removeWhenDone \in BOOLEAN,
          built \in BOOLEAN :
        LET h == Built(total, showElapsed, removeWhenDone, built)
        IN /\ bars = h.bars
           /\ abool = h.abool
           /\ astr = h.astr
           /\ origin = <<[op |-> IF built THEN "With" ELSE "Literal", src |-> Nil]>>
    /\ tasks = <<>>
    /\ registry = <<>>
    /\ out = <<>>
    /\ hides = 0
    /\ shows = 0
    /\ finals = <<0>>
    /\ now = 0
    /\ termWidth = DefaultMaxWidth
    /\ last = Call("none", Nil, 0, "", Nil)
    /\ crashed = FALSE
    /\ pc = <<>>
    /\ tmp = <<>>
    /\ call = <<>>
    /\ lock = Nil
    /\ nanInt = 0

\* the call ends in heap h
Do(h, limit) ==
    /\ ~crashed
    /\ InBounds(h, limit)
    /\ Commit(h)
    /\ UNCHANGED <<now, termWidth, pc, tmp, call, lock, nanInt>>

Start(p, title, limit) ==
    /\ Do(StartBody(Fresh, p, title), limit)
    /\ last' = Call("Start", p, 0, IF Len(title) = 0 THEN "" ELSE title[1],
                    Len(bars) + 1)

Add(p, count, limit) ==
    /\ Started(p) \/ bars[p].Total = 0
    /\ Do(AddBody(Fresh, p, count), limit)
    /\ last' = Call("Add", p, count, "", AddResult(Fresh, p))

\* lines 233-236: Increment returns p whatever Add returned
Increment(p, limit) ==
    /\ Started(p) \/ bars[p].Total = 0
    /\ Do(AddBody(Fresh, p, 1), limit)
    /\ last' = Call("Increment", p, 1, "", p)

UpdateTitle(p, title, limit) ==
    /\ Started(p)
    /\ Do(UpdateTitleBody(Fresh, p, title), limit)
    /\ last' = Call("UpdateTitle", p, 0, title, p)

Stop(p, limit) ==
    /\ Do(StopBody(Fresh, p), limit)
    /\ last' = Call("Stop", p, 0, "", p)

\* the function given to schedule.Every (lines 355-358), run by the
\* scheduler while the task is active
Tick(t, limit) ==
    /\ tasks[t].active
    /\ Do(updateProgress(Fresh, tasks[t].bar), limit)
    /\ last' = Call("Tick", tasks[t].bar, 0, "", Nil)

StartTitles ==
    {<<>>} \cup {<<t>> : t \in Titles}

Next ==
    \/ \E p \in DOMAIN bars, title \in StartTitles : Start(p, title, MaxBars)
    \/ \E p \in DOMAIN bars, count \in AddCounts : Add(p, count, MaxBars)
    \/ \E p \in DOMAIN bars : Increment(p, MaxBars)
    \/ \E p \in DOMAIN bars, title \in Titles : UpdateTitle(p, title, MaxBars)
    \/ \E p \in DOMAIN bars : Stop(p, MaxBars)
    \/ \E t \in DOMAIN tasks : Tick(t, MaxBars)

Spec ==
    Init /\ [][Next]_vars

\* the same program with room for one more bar, so that two instances of
\* one template exist side by side
NextShare ==
    \/ \E p \in DOMAIN bars, title \in StartTitles : Start(p, title, MaxBars + 1)
    \/ \E p \in DOMAIN bars, count \in AddCounts : Add(p, count, MaxBars + 1)
    \/ \E p \in DOMAIN bars : Increment(p, MaxBars + 1)
    \/ \E p \in DOMAIN bars, title \in Titles : UpdateTitle(p, title, MaxBars + 1)
    \/ \E p \in DOMAIN bars : Stop(p, MaxBars + 1)
    \/ \E t \in DOMAIN tasks : Tick(t, MaxBars + 1)

SpecShare ==
    Init /\ [][NextShare]_vars

----------------------------------------------------------------------------
(* SpecBuild: the caller also derives bars with the With* setters, from    *)
(* the template, from another derived bar or from a live instance, and     *)
(* passes negative counts to Add.  Titles are set with WithTitle only.     *)

\* lines 95-101
WithTitle(p, name, limit) ==
    /\ Do(WithTitleBody(Fresh, p, name), limit)
    /\ last' = Call("WithTitle", p, 0, name, Len(bars) + 1)

\* lines 120-124
WithCurrent(p, current, limit) ==
    /\ Do(WithCurrentBody(Fresh, p, current), limit)
    /\ last' = Call("WithCurrent", p, current, "", Len(bars) + 1)

NextBuild ==
    \/ \E p \in DOMAIN bars, name \in Titles : WithTitle(p, name, MaxBars + 1)
    \/ \E p \in DOMAIN bars : WithCurrent(p, MaxCur, MaxBars + 1)
    \/ \E p \in DOMAIN bars : Start(p, <<>>, MaxBars + 1)
    \/ \E p \in DOMAIN bars, count \in AnyCounts : Add(p, count, MaxBars + 1)
    \/ \E p \in DOMAIN bars : Increment(p, MaxBars + 1)
    \/ \E p \in DOMAIN bars : Stop(p, MaxBars + 1)
    \/ \E t \in DOMAIN tasks : Tick(t, MaxBars + 1)

SpecBuild ==
    Init /\ [][NextBuild]_vars

----------------------------------------------------------------------------
(* SpecConc: NThreads goroutines call Add(1) or Stop on one started        *)
(* instance, and the scheduler ticks.  No lock guards the instance         *)
(* (p.Current and p.Total are plain ints), so a call is a sequence of      *)
(* steps, one per access to the shared instance.                           *)

Threads ==
    1..NThreads

\* the instance Start returned
ConcBar ==
    2

InitConc ==
    /\ now = 0
    /\ termWidth = DefaultMaxWidth
    /\ \E total \in 1..NThreads, showElapsed \in BOOLEAN, removeWhenDone \in BOOLEAN,
          built \in BOOLEAN :
        LET t == Built(total, showElapsed, removeWhenDone, built)
            h == StartBody(
                     [bars |-> t.bars, abool |-> t.abool, astr |-> t.astr,
                      tasks |-> <<>>, registry |-> <<>>, out |-> <<>>,
                      hides |-> 0, shows |-> 0, finals |-> <<0>>,
                      origin |-> <<[op |-> IF built THEN "With" ELSE "Literal",
                                    src |-> Nil]>>,
                      crashed |-> FALSE], 1, <<>>)
        IN /\ bars = h.bars
           /\ abool = h.abool
           /\ astr = h.astr
           /\ tasks = h.tasks
           /\ registry = h.registry
           /\ out = h.out
           /\ hides = h.hides
           /\ shows = h.shows
           /\ finals = h.finals
           /\ origin = h.origin
           /\ crashed = h.crashed
    /\ last = Call("Start", 1, 0, "", ConcBar)
    /\ call \in [Threads -> {"Add", "Stop"}]
    /\ pc = [i \in Threads |-> "start"]
    /\ tmp = [i \in Threads |-> 0]
    /\ lock = Nil
    /\ nanInt = 0

\* thread i takes a step that ends in heap h and goes to position next
StepTo(i, h, next) ==
    /\ Commit(h)
    /\ pc' = [pc EXCEPT ![i] = next]
    /\ UNCHANGED <<now, termWidth, last, call, lock, nanInt>>

\* lines 317-321: the guard, and the load of p.Current += count
AddLoad(i) ==
    /\ pc[i] = "start"
    /\ call[i] = "Add"
    /\ IF AddReturnsNil(H, ConcBar)
        THEN StepTo(i, Fresh, "done") /\ tmp' = tmp
        ELSE /\ StepTo(i, Fresh, "add_store")
             /\ tmp' = [tmp EXCEPT ![i] = bars[ConcBar].Current]

\* line 321: the store of p.Current += count
AddStoreStep(i) ==
    /\ pc[i] = "add_store"
    /\ StepTo(i, AddStore(Fresh, ConcBar, tmp[i] + 1), "add_render")
    /\ tmp' = tmp

\* line 322
AddRender(i) ==
    /\ pc[i] = "add_render"
    /\ StepTo(i, updateProgress(Fresh, ConcBar), "add_check")
    /\ tmp' = tmp

\* line 324
AddCheck(i) ==
    /\ pc[i] = "add_check"
    /\ StepTo(i, Fresh, IF AddIsDone(H, ConcBar) THEN "add_clamp" ELSE "done")
    /\ tmp' = tmp

\* line 325
AddClampStep(i) ==
    /\ pc[i] = "add_clamp"
    /\ StepTo(i, AddClamp(Fresh, ConcBar), "add_render2")
    /\ tmp' = tmp

\* line 326; line 327 calls Stop
AddRender2(i) ==
    /\ pc[i] = "add_render2"
    /\ StepTo(i, updateProgress(Fresh, ConcBar), "stop_cancel")
    /\ tmp' = tmp

\* lines 366-369, on entry to Stop
StopCancelStep(i) ==
    /\ \/ pc[i] = "stop_cancel"
       \/ pc[i] = "start" /\ call[i] = "Stop"
    /\ StepTo(i, StopCancel(Fresh, ConcBar), "stop_load")
    /\ tmp' = tmp

\* lines 371-373
StopLoad(i) ==
    /\ pc[i] = "stop_load"
    /\ StepTo(i, Fresh, IF StopReturnsEarly(H, ConcBar) THEN "done" ELSE "stop_store")
    /\ tmp' = tmp

\* lines 374-375
StopStore(i) ==
    /\ pc[i] = "stop_store"
    /\ StepTo(i, StopDeactivate(Fresh, ConcBar), "stop_out")
    /\ tmp' = tmp

\* lines 376-382
StopOut(i) ==
    /\ pc[i] = "stop_out"
    /\ StepTo(i, StopFinalize(Fresh, ConcBar), "done")
    /\ tmp' = tmp

\* lines 355-358, on the scheduler's goroutine
TickConc(t) ==
    /\ tasks[t].active
    /\ Commit(updateProgress(Fresh, tasks[t].bar))
    /\ UNCHANGED <<now, termWidth, last, pc, tmp, call, lock, nanInt>>

NextConc ==
    \/ \E i \in Threads : AddLoad(i)
    \/ \E i \in Threads : AddStoreStep(i)
    \/ \E i \in Threads : AddRender(i)
    \/ \E i \in Threads : AddCheck(i)
    \/ \E i \in Threads : AddClampStep(i)
    \/ \E i \in Threads : AddRender2(i)
    \/ \E i \in Threads : StopCancelStep(i)
    \/ \E i \in Threads : StopLoad(i)
    \/ \E i \in Threads : StopStore(i)
    \/ \E i \in Threads : StopOut(i)
    \/ \E t \in DOMAIN tasks : TickConc(t)

SpecConc ==
    InitConc /\ [][NextConc]_vars

AllDone ==
    \A i \in Threads : pc[i] = "done"

----------------------------------------------------------------------------
(* SpecStart: NThreads goroutines each call Start on the template and then *)
(* Stop on the instance they got.  The append to the registry is a read    *)
(* and a write of the slice, made between Lock and Unlock.                 *)

\* the instance of caller i, and the slice it has read
Own(i) ==
    tmp[i].q

InitStart ==
    /\ \E total \in 0..MaxTotal, showElapsed \in BOOLEAN, removeWhenDone \in BOOLEAN,
          built \in BOOLEAN :
        LET h == Built(total, showElapsed, removeWhenDone, built)
        IN /\ bars = h.bars
           /\ abool = h.abool
           /\ astr = h.astr
           /\ origin = <<[op |-> IF built THEN "With" ELSE "Literal", src |-> Nil]>>
    /\ tasks = <<>>
    /\ registry = <<>>
    /\ out = <<>>
    /\ hides = 0
    /\ shows = 0
    /\ finals = <<0>>
    /\ now = 0
    /\ termWidth = DefaultMaxWidth
    /\ last = Call("none", Nil, 0, "", Nil)
    /\ crashed = FALSE
    /\ pc = [i \in Threads |-> "start"]
    /\ tmp = [i \in Threads |-> [q |-> Nil, printers |-> <<>>]]
    /\ call = [i \in Threads |-> "Start"]
    /\ lock = Nil
    /\ nanInt = 0

\* caller i takes a step that ends in heap h and goes to position next
StartStepTo(i, h, next) ==
    /\ Commit(h)
    /\ pc' = [pc EXCEPT ![i] = next]
    /\ UNCHANGED <<now, termWidth, last, call, nanInt>>

\* lines 333-337: the copy of the receiver, lazyInit, Hide, the active flag
StartEnter(i) ==
    /\ pc[i] = "start"
    /\ StartStepTo(i, StartActivate(CopyBar(Fresh, 1, "Start"), Len(bars) + 1),
                   "reg_lock")
    /\ tmp' = [tmp EXCEPT ![i].q = Len(bars) + 1]
    /\ lock' = lock

\* a Lock that lets every caller in
LockIgnored ==
    TRUE

\* sync.Mutex: Lock returns when no one holds the lock
LockFree ==
    lock = Nil

\* line 346
RegLock(i) ==
    /\ pc[i] = "reg_lock"
    /\ LockFree
    /\ StartStepTo(i, Fresh, "reg_load")
    /\ lock' = i
    /\ tmp' = tmp

\* line 347: append reads the slice
RegLoad(i) ==
    /\ pc[i] = "reg_load"
    /\ StartStepTo(i, Fresh, "reg_store")
    /\ tmp' = [tmp EXCEPT ![i].printers = registry]
    /\ lock' = lock

\* line 347: the result of append is assigned to the slice
RegStore(i) ==
    /\ pc[i] = "reg_store"
    /\ StartStepTo(i, [Fresh EXCEPT !.registry = Append(tmp[i].printers, Own(i))],
                   "reg_unlock")
    /\ UNCHANGED <<tmp, lock>>

\* line 348
RegUnlock(i) ==
    /\ pc[i] = "reg_unlock"
    /\ StartStepTo(i, Fresh, "start_render")
    /\ lock' = Nil
    /\ tmp' = tmp

\* lines 350-361
StartFinish(i) ==
    /\ pc[i] = "start_render"
    /\ StartStepTo(i, StartSchedule(
                       updateProgress(
                           [Fresh EXCEPT !.bars[Own(i)].startedAt = now],
                           Own(i)),
                       Own(i)),
                   "started")
    /\ UNCHANGED <<tmp, lock>>

\* lines 365-383, on the caller's own instance
StopOwn(i) ==
    /\ pc[i] = "started"
    /\ StartStepTo(i, StopBody(Fresh, Own(i)), "done")
    /\ UNCHANGED <<tmp, lock>>

NextStart ==
    \/ \E i \in Threads : StartEnter(i)
    \/ \E i \in Threads : RegLock(i)
    \/ \E i \in Threads : RegLoad(i)
    \/ \E i \in Threads : RegStore(i)
    \/ \E i \in Threads : RegUnlock(i)
    \/ \E i \in Threads : StartFinish(i)
    \/ \E i \in Threads : StopOwn(i)
    \/ \E t \in DOMAIN tasks : TickConc(t)

SpecStart ==
    InitStart /\ [][NextStart]_vars

----------------------------------------------------------------------------
(* SpecRender: getString on an active instance, for bounded inputs *)

InitRender ==
    /\ \E total \in (-RenderMaxTotal..RenderMaxTotal) \ {0},
          current \in (-MaxBelow)..(RenderMaxTotal + 1),
          maxWidth \in MaxWidths, title \in Titles,
          showTitle \in BOOLEAN, showCount \in BOOLEAN,
          showPercentage \in BOOLEAN, showElapsed \in BOOLEAN :
        /\ bars = <<[Template(total, showElapsed, FALSE) EXCEPT
                        !.Title = title, !.Current = current,
                        !.MaxWidth = maxWidth, !.ShowTitle = showTitle,
                        !.ShowCount = showCount,
                        !.ShowPercentage = showPercentage,
                        !.IsActive = TRUE, !.atomicIsActive = 1,
                        !.atomicTitle = 1]>>
        /\ astr = <<title>>
        /\ nanInt \in IF total < 0 THEN NaNInts ELSE {0}
    /\ abool = <<TRUE>>
    /\ tasks = <<>>
    /\ registry = <<1>>
    /\ out = <<>>
    /\ hides = 1
    /\ shows = 0
    /\ finals = <<0>>
    /\ origin = <<[op |-> "Start", src |-> Nil]>>
    /\ now \in Elapsed
    /\ termWidth \in TermWidths
    /\ last = Call("none", Nil, 0, "", Nil)
    /\ crashed = FALSE
    /\ pc = <<>>
    /\ tmp = <<>>
    /\ call = <<>>
    /\ lock = Nil

\* lines 248-251
Render ==
    /\ Commit(updateProgress(Fresh, 1))
    /\ last' = Call("Render", 1, 0, "", Nil)
    /\ UNCHANGED <<now, termWidth, pc, tmp, call, lock, nanInt>>

\* the terminal is resized; GetTerminalWidth is sampled at every render
Resize(width) ==
    /\ width /= termWidth
    /\ termWidth' = width
    /\ out' = <<>>
    /\ last' = Call("Resize", Nil, width, "", Nil)
    /\ UNCHANGED <<bars, abool, astr, tasks, registry, hides, shows, finals,
                   origin, now, crashed, pc, tmp, call, lock, nanInt>>

\* lines 316-330: Add(1) on the instance
AddOne ==
    /\ bars[1].Current <= RenderMaxTotal
    /\ Commit(AddBody(Fresh, 1, 1))
    /\ last' = Call("Add", 1, 1, "", AddResult(Fresh, 1))
    /\ UNCHANGED <<now, termWidth, pc, tmp, call, lock, nanInt>>

NextRender ==
    \/ Render
    \/ AddOne
    \/ \E width \in TermWidths : Resize(width)

SpecRender ==
    InitRender /\ [][NextRender]_vars

----------------------------------------------------------------------------
(* Properties *)

\* the atomic cells after the step
Post ==
    [bars |-> bars', abool |-> abool', astr |-> astr']

\* a terminal output action: the finalizing newline, or the line clear
IsFinal(e) ==
    e.kind \in {"newline", "clear"}

NumFinal(o) ==
    Cardinality({i \in DOMAIN o : IsFinal(o[i])})

\* p and q were started from the same template, one built by a With* chain
Siblings(p, q) ==
    /\ p /= q
    /\ Started(p)
    /\ Started(q)
    /\ origin[p].src = origin[q].src
    /\ origin[origin[p].src].op = "With"

\* C1: a Stop that directly follows a Stop of the same bar writes nothing
\* to the Writer, changes no field of any bar and no atomic cell (Current,
\* Total, IsActive, the atomic active flag, the title), adds no terminal
\* output action, does not panic, and returns the bar.
C1_StopTwiceIsNoOp ==
    [][(last.op = "Stop" /\ last'.op = "Stop" /\ last'.p = last.p)
        => /\ out' = <<>>
           /\ bars' = bars
           /\ abool' = abool
           /\ astr' = astr
           /\ finals' = finals
           /\ ~crashed'
           /\ last'.ret = last.p]_vars

\* C1 witness: a started instance was stopped while active (one terminal
\* output action, no Add ever moved it) and Stop has been called on it a
\* second time, which wrote nothing.
C1_Witness ==
    /\ last.op = "Stop"
    /\ Started(last.p)
    /\ bars[last.p].Current = 0
    /\ finals[last.p] = 1
    /\ shows = 2
    /\ out = <<>>

\* C2: when every caller calls Add(1) on an instance started with
\* Current = 0 and Total = NThreads, and all calls have returned, then
\* Current = NThreads and Stop was invoked exactly once (every invocation
\* of Stop calls cursor.Show() once, so shows counts them).
C2_ConcurrentAdds ==
    (/\ AllDone
     /\ \A i \in Threads : call[i] = "Add"
     /\ bars[1].Total = NThreads)
        => /\ bars[ConcBar].Current = NThreads
           /\ shows = 1

\* C3: an Increment on a started, active instance with 0 <= Current < Total:
\* if it is not the last one (Current + 1 < Total) it performs no terminal
\* output action, adds one to Current and leaves the instance active with
\* the same Total; if it is the last one it performs exactly one terminal
\* output action, directly preceded by a frame with cur = total = N whose
\* filled length is the whole bar length, and leaves the instance inactive.
C3_CompletionFraming ==
    [][\A p \in DOMAIN bars :
        (/\ last'.op = "Increment"
         /\ last'.p = p
         /\ Started(p)
         /\ LoadIsActive(H, p)
         /\ bars[p].Current >= 0
         /\ bars[p].Current < bars[p].Total)
            => IF bars[p].Current + 1 < bars[p].Total
                THEN /\ NumFinal(out') = 0
                     /\ finals' = finals
                     /\ bars'[p].Current = bars[p].Current + 1
                     /\ bars'[p].Total = bars[p].Total
                     /\ LoadIsActive(Post, p)
                ELSE /\ NumFinal(out') = 1
                     /\ finals'[p] = finals[p] + 1
                     /\ \E j \in DOMAIN out' :
                            /\ IsFinal(out'[j])
                            /\ j > 1
                            /\ out'[j - 1].kind = "frame"
                            /\ out'[j - 1].cur = bars[p].Total
                            /\ out'[j - 1].total = bars[p].Total
                            /\ out'[j - 1].filled = out'[j - 1].max
                     /\ ~LoadIsActive(Post, p)]_vars

\* C3 witness: the second of two Increments completed an instance started
\* from a template with Total = 2: one terminal output action, written by
\* this call after two frames.
C3_Witness ==
    /\ last.op = "Increment"
    /\ Started(last.p)
    /\ bars[origin[last.p].src].Total = 2
    /\ bars[origin[last.p].src].Current = 0
    /\ bars[last.p].Current = 2
    /\ bars[last.p].Total = 2
    /\ finals[last.p] = 1
    /\ NumFinal(out) = 1
    /\ Len(out) >= 3

\* C4: Add (also through Increment) on a bar with Total = 0, started or
\* not, writes nothing to the Writer, changes no field of any bar and no
\* atomic cell, does not panic, and Add returns nil.
C4_AddOnZeroTotal ==
    [][\A p \in DOMAIN bars :
        (/\ last'.op \in {"Add", "Increment"}
         /\ last'.p = p
         /\ bars[p].Total = 0)
            => /\ out' = <<>>
               /\ bars' = bars
               /\ abool' = abool
               /\ astr' = astr
               /\ ~crashed'
               /\ (last'.op = "Add" => last'.ret = Nil)]_vars

\* C4 witness: Add has returned nil on a started, active instance whose
\* Total is 0.
C4_Witness ==
    /\ last.op = "Add"
    /\ last.ret = Nil
    /\ Started(last.p)
    /\ LoadIsActive(H, last.p)
    /\ bars[last.p].Total = 0
    /\ bars[last.p].Current = 0
    /\ out = <<>>

\* C5: every frame written to the Writer has cur <= total, and so a filled
\* length of at most the bar's maximum length.
C5_NeverAbove100 ==
    \A i \in DOMAIN out :
        out[i].kind = "frame"
            => /\ out[i].cur <= out[i].total
               /\ out[i].filled <= out[i].max

\* C6: Stop or UpdateTitle on one of two instances started from the same
\* With*-built template, or the Start (with its title override) that
\* creates one of them, changes neither the active flag nor the title that
\* the other instance renders.
C6_InstancesDoNotCollide ==
    [][\A q \in DOMAIN bars :
        /\ \A p \in DOMAIN bars :
            (/\ Siblings(p, q)
             /\ last'.p = p
             /\ last'.op \in {"Stop", "UpdateTitle"})
                => /\ LoadIsActive(Post, q) = LoadIsActive(H, q)
                   /\ LoadTitle(Post, q) = LoadTitle(H, q)
        /\ (/\ Started(q)
            /\ origin[origin[q].src].op = "With"
            /\ last'.op = "Start"
            /\ last'.p = origin[q].src)
                => /\ LoadIsActive(Post, q) = LoadIsActive(H, q)
                   /\ LoadTitle(Post, q) = LoadTitle(H, q)]_vars

\* C7: once Stop has made a started instance inactive (it performed the
\* instance's terminal output action and the active flag is false), no
\* step makes the instance's active flag true again.
C7_StoppedNeverResumes ==
    [][\A p \in DOMAIN bars :
        (Started(p) /\ finals[p] > 0 /\ ~LoadIsActive(H, p))
            => ~LoadIsActive(Post, p)]_vars

\* C8: Start leaves the bar it is called on unchanged: every field of the
\* struct (IsActive, Title, Current, Total, startedAt, rerenderTask), and
\* the atomic active flag and atomic title the bar's pointers refer to.
C8_StartLeavesTemplate ==
    [][\A t \in DOMAIN bars :
        (last'.op = "Start" /\ last'.p = t)
            => /\ bars'[t] = bars[t]
               /\ bars[t].atomicIsActive /= Nil
                    => /\ LoadIsActive(Post, t) = LoadIsActive(H, t)
                       /\ LoadTitle(Post, t) = LoadTitle(H, t)]_vars

\* C9: under every interleaving of the callers' Add and Stop calls, the
\* instance performs at most one terminal output action, and exactly one
\* once all calls have returned and it is inactive.
C9_OneTerminalAction ==
    /\ finals[ConcBar] <= 1
    /\ (AllDone /\ ~LoadIsActive(H, ConcBar)) => finals[ConcBar] = 1

\* C10: a frame rendered with Total > 0 and 0 <= Current <= Total is at
\* most as long (in visible cells) as the effective width.
C10_FitsEffectiveWidth ==
    \A i \in DOMAIN out :
        (/\ out[i].kind = "frame"
         /\ out[i].total > 0
         /\ out[i].cur >= 0
         /\ out[i].cur <= out[i].total)
            => out[i].len <= out[i].width

\* the active periodic tasks that re-render bar p
TasksOf(ts, p) ==
    {t \in DOMAIN ts : ts[t].bar = p /\ ts[t].active}

\* C11: after every call, a started instance with Total > 0 whose active
\* flag is set has Current < Total; and when the call was an Add (or
\* Increment) on a started instance that had Total > 0, the instance ends
\* either active with Current < Total or inactive with Current = Total.
C11_ActiveBelowTotal ==
    [][\A p \in DOMAIN bars' :
        /\ (/\ origin'[p].op = "Start"
            /\ bars'[p].Total > 0
            /\ LoadIsActive(Post, p))
                => bars'[p].Current < bars'[p].Total
        /\ (/\ p \in DOMAIN bars
            /\ Started(p)
            /\ bars[p].Total > 0
            /\ last'.op \in {"Add", "Increment"}
            /\ last'.p = p)
                => \/ /\ bars'[p].Current < bars'[p].Total
                      /\ LoadIsActive(Post, p)
                   \/ /\ bars'[p].Current = bars'[p].Total
                      /\ ~LoadIsActive(Post, p)]_vars

\* C14: a With* setter called on bar a leaves a unchanged: every field of
\* a's struct, and, when a has them, the atomic title and active flag that
\* a renders from; and the bar WithTitle(x) returns renders x.
C14_WithLeavesReceiver ==
    [][\A a \in DOMAIN bars :
        (last'.op \in {"WithTitle", "WithCurrent"} /\ last'.p = a)
            => /\ bars'[a] = bars[a]
               /\ bars[a].atomicTitle /= Nil
                    => /\ LoadTitle(Post, a) = LoadTitle(H, a)
                       /\ LoadIsActive(Post, a) = LoadIsActive(H, a)
               /\ last'.op = "WithTitle"
                    => LoadTitle(Post, last'.ret) = last'.title]_vars

\* C17: after every call each bar has at most one active periodic task;
\* Start schedules one task for the instance it returns exactly when
\* ShowElapsedTime is set; and an active task becomes inactive only in a
\* Stop, or a completing Add, called on the task's own instance.
C17_OneTaskPerInstance ==
    [][/\ \A p \in DOMAIN bars' : Cardinality(TasksOf(tasks', p)) <= 1
       /\ last'.op = "Start"
            => Cardinality(TasksOf(tasks', last'.ret))
                 = IF bars'[last'.ret].ShowElapsedTime THEN 1 ELSE 0
       /\ \A t \in DOMAIN tasks :
            (tasks[t].active /\ ~tasks'[t].active)
                => /\ last'.op \in {"Stop", "Add", "Increment"}
                   /\ last'.p = tasks[t].bar]_vars

\* C18: an Add (or Increment) on a bar with Total > 0 leaves Current
\* greater than or equal to what it was, whatever count is passed.
C18_CurrentNeverDecreases ==
    [][\A p \in DOMAIN bars :
        (/\ last'.op \in {"Add", "Increment"}
         /\ last'.p = p
         /\ bars[p].Total > 0)
            => bars'[p].Current >= bars[p].Current]_vars

\* C12: a Start hides the cursor once and does not show it; a Stop shows
\* the cursor once when it deactivates a started instance and not at all
\* otherwise (a repeated Stop, a Stop on a bar that was never started); and
\* the cursor has never been shown more often than hidden.
C12_CursorPaired ==
    [][/\ last'.op = "Start" => (hides' = hides + 1 /\ shows' = shows)
       /\ last'.op = "Stop"
            => shows' = shows + (IF Started(last'.p) /\ LoadIsActive(H, last'.p)
                                    THEN 1 ELSE 0)
       /\ shows' <= hides']_vars

\* C13: UpdateTitle(text) on a started instance changes the Title field
\* and the atomic title to text and nothing else (Current, Total, IsActive,
\* startedAt, the atomic active flag), does not panic, and writes exactly
\* one line: when the instance is active with Total /= 0, a frame that
\* shows text with the Current and Total of before the call; otherwise the
\* empty line.
C13_UpdateTitleOnlyTitle ==
    [][\A p \in DOMAIN bars :
        (last'.op = "UpdateTitle" /\ last'.p = p /\ Started(p))
            => /\ bars' = [bars EXCEPT ![p].Title = last'.title]
               /\ abool' = abool
               /\ LoadTitle(Post, p) = last'.title
               /\ ~crashed'
               /\ Len(out') = 1
               /\ IF LoadIsActive(H, p) /\ bars[p].Total /= 0
                    THEN /\ out'[1].kind = "frame"
                         /\ out'[1].p = p
                         /\ out'[1].title = last'.title
                         /\ out'[1].cur = bars[p].Current
                         /\ out'[1].total = bars[p].Total
                    ELSE out'[1] = Blank(p)]_vars

\* C13 witness: UpdateTitle("ab") was called on an active instance that
\* had progressed to 1 of 2, and wrote one frame with the title "ab" and
\* the count 1/2.
C13_Witness ==
    /\ last.op = "UpdateTitle"
    /\ last.title = "ab"
    /\ Started(last.p)
    /\ LoadIsActive(H, last.p)
    /\ bars[last.p].Current = 1
    /\ bars[last.p].Total = 2
    /\ Len(out) = 1
    /\ out[1].kind = "frame"
    /\ out[1].title = "ab"
    /\ out[1].cur = 1
    /\ out[1].total = 2

\* C16: once Stop has returned on an instance, none of the instance's
\* periodic tasks is active; and after Stop has deactivated a started
\* instance (its terminal output action is done), no Tick, Add, Increment
\* or UpdateTitle on that instance writes a frame: they write empty lines.
C16_NoContentAfterStop ==
    [][/\ last'.op = "Stop" => TasksOf(tasks', last'.p) = {}
       /\ \A p \in DOMAIN bars :
            (/\ Started(p)
             /\ finals[p] > 0
             /\ last'.op \in {"Tick", "Add", "Increment", "UpdateTitle"}
             /\ last'.p = p)
                => \A i \in DOMAIN out' : out'[i].kind /= "frame"]_vars

\* the callers whose append to the registry is done
Appended(pcs) ==
    {i \in Threads :
        pcs[i] \in {"reg_unlock", "start_render", "started", "done"}}

\* C15: under every interleaving of concurrent Start and Stop calls, every
\* step keeps the entries the registry had, in their order; the registry
\* holds one entry for each caller whose append is done, namely that
\* caller's instance, and no other entry; and a Stop leaves it unchanged.
C15_RegistryAppendOnly ==
    [][/\ Len(registry') >= Len(registry)
       /\ SubSeq(registry', 1, Len(registry)) = registry
       /\ Len(registry') = Cardinality(Appended(pc'))
       /\ \A i \in Appended(pc') :
            Cardinality({k \in DOMAIN registry' : registry'[k] = tmp'[i].q}) = 1
       /\ \A i \in Threads :
            (pc[i] = "started" /\ pc'[i] = "done") => registry' = registry]_vars

\* C15 witness: all callers have finished Start and Stop, and the caller
\* that made its copy second appended first.
C15_Witness ==
    /\ \A i \in Threads : pc[i] = "done" /\ call[i] = "Start"
    /\ Len(registry) = NThreads
    /\ registry[1] > registry[2]

\* the frames a call wrote, in order
Frames(o) ==
    SelectSeq(o, LAMBDA e : e.kind = "frame")

\* the frames of two consecutive calls: the last one of the first call,
\* then those of the second
Consecutive(o1, o2) ==
    (IF Frames(o1) = <<>> THEN <<>> ELSE <<Frames(o1)[Len(Frames(o1))]>>)
        \o Frames(o2)

\* f and g were laid out with the same width, prefix and suffix lengths
\* and total, of a bar with Total > 0 and Current >= 0
SameLayout(f, g) ==
    /\ f.width = g.width
    /\ f.max = g.max
    /\ f.total = g.total
    /\ f.total > 0
    /\ f.cur >= 0

C20_RenderNeverFails ==
    /\ ~crashed
    /\ \A i \in DOMAIN out :
        out[i].kind = "frame"
            => /\ out[i].total /= 0
               /\ out[i].run >= 0
               /\ out[i].filler >= 0
               /\ out[i].filler = Max(0, out[i].max - out[i].filled)

\* C20 witness: a frame was written for an overshoot (Current > Total) on
\* a terminal so narrow that barMaxLength is negative: the filled length
\* is negative and no filled run was built.
C20_Witness ==
    /\ ~crashed
    /\ Len(out) >= 1
    /\ out[1].kind = "frame"
    /\ out[1].cur > out[1].total
    /\ out[1].total > 0
    /\ out[1].max < 0
    /\ out[1].filled < 0
    /\ out[1].run = 0

====
